---- MODULE Spec2Model ----
(***************************************************************************)
(* The NZAAT hash of package nzaat (src/nzaat.go): a hash.Hash32 whose     *)
(* whole state is one uint32 accumulator (type digest).                    *)
(*                                                                         *)
(* TLC's integers are 32-bit signed, so a uint32 is kept as the pair       *)
(* <<high 16 bits, low 16 bits>> and every operation wraps modulo 2^32     *)
(* exactly as Go's uint32 arithmetic does.                                 *)
(***************************************************************************)
EXTENDS Integers, Sequences, FiniteSets, TLC

VARIABLES
    d,          \* the accumulator *d of the engine (type digest uint32)
    ingested,   \* history: the bytes written since New or the last Reset
    op,         \* the last method called on the engine
    arg,        \* the slice that call was given (p of Write, in of Sum)
    ret,        \* what that call returned
    reused,     \* history: Reset was called on an engine that held bytes
    again       \* history: the last two calls were both Sum32 or Sum

vars == <<d, ingested, op, arg, ret, reused, again>>

---------------------------------------------------------------------------
(* uint32 arithmetic *)

\* One half of a uint32 holds 16 bits.
Half == 65536

\* The uint32 whose value is hi * 2^16 + lo.
W(hi, lo) == <<hi, lo>>

Zero == W(0, 0)

\* uint32(n) for a small non-negative integer n (a byte, or a byte plus one).
U32(n) == W((n \div Half) % Half, n % Half)

InRange(w) == /\ w[1] \in 0..(Half - 1)
              /\ w[2] \in 0..(Half - 1)

\* a + b on uint32: the carry out of bit 31 is dropped.
Add32(a, b) ==
    LET lo == a[2] + b[2]
        hi == a[1] + b[1] + (lo \div Half)
    IN  W(hi % Half, lo % Half)

\* a << k on uint32, 0 < k < 16: the bits shifted out of bit 31 are dropped.
Shl32(a, k) ==
    LET keep == 2^(16 - k)
    IN  W((a[1] % keep) * 2^k + (a[2] \div keep), (a[2] % keep) * 2^k)

\* Shr32 as a signed shift: copies of bit 31 are shifted in from the left.
Shr32Signed(a, k) ==
    LET neg == a[1] >= 32768
    IN  IF k >= 16
        THEN W(IF neg THEN Half - 1 ELSE 0,
               (a[1] \div 2^(k - 16))
                 + (IF neg THEN (2^(k - 16) - 1) * 2^(32 - k) ELSE 0))
        ELSE W((a[1] \div 2^k) + (IF neg THEN (2^k - 1) * 2^(16 - k) ELSE 0),
               (a[2] \div 2^k) + (a[1] % 2^k) * 2^(16 - k))

\* a >> k on uint32, 0 < k < 32: zeros are shifted in from the left.
Shr32(a, k) ==
    IF k >= 16
    THEN W(0, a[1] \div 2^(k - 16))
    ELSE W(a[1] \div 2^k, (a[2] \div 2^k) + (a[1] % 2^k) * 2^(16 - k))

RECURSIVE Xor16(_, _)
Xor16(x, y) ==
    IF x = 0 THEN y
    ELSE IF y = 0 THEN x
    ELSE ((x + y) % 2) + 2 * Xor16(x \div 2, y \div 2)

RECURSIVE And16(_, _)
And16(x, y) ==
    IF x = 0 \/ y = 0 THEN 0
    ELSE ((x % 2) * (y % 2)) + 2 * And16(x \div 2, y \div 2)

\* Xor32 with & typed for ^.
And32(a, b) == W(And16(a[1], b[1]), And16(a[2], b[2]))

\* a ^ b on uint32.
Xor32(a, b) == W(Xor16(a[1], b[1]), Xor16(a[2], b[2]))

\* byte(w): the low 8 bits.
Byte(w) == w[2] % 256

---------------------------------------------------------------------------
(* The hash primitives *)

\* MIX(s): s += s << 10; s ^= s >> 6.
MIX(s) ==
    LET t == Add32(s, Shl32(s, 10))
    IN  Xor32(t, Shr32(t, 6))

\* FIN with the middle shift one bit short.
FINShift10(s) ==
    LET t == Add32(s, Shl32(s, 3))
        u == Xor32(t, Shr32(t, 10))
    IN  Add32(u, Shl32(u, 15))

\* FIN(s): s += s << 3; s ^= s >> 11; s += s << 15.
FIN(s) ==
    LET t == Add32(s, Shl32(s, 3))
        u == Xor32(t, Shr32(t, 11))
    IN  Add32(u, Shl32(u, 15))

\* NUP without the constant: the Update of the one-at-a-time hash (OUP).
OUP(s, x) == MIX(Add32(s, U32(x)))

\* The body of the loop of Write for the byte x.
NUP(s, x) == MIX(Add32(s, Add32(U32(x), U32(1))))

\* The loop of Write: the bytes of p in order, from accumulator s. Each
\* iteration stores a uint32 n in *d for the next one to read (the test on n
\* has TLC compute n before the next iteration; a uint32 always passes it).
RECURSIVE WriteLoop(_, _)
WriteLoop(s, p) ==
    IF p = <<>> THEN s
    ELSE LET n == NUP(s, Head(p))
         IN  IF InRange(n) THEN WriteLoop(n, Tail(p)) ELSE n

---------------------------------------------------------------------------
(* The methods of digest *)

Size == 4

BlockSize == 1

Nil == "nil"

None == "none"

\* WriteRet counting one byte short.
WriteRetShort(p) == <<IF p = <<>> THEN 0 ELSE Len(p) - 1, Nil>>

\* What Write(p) returns: (nn, err).
WriteRet(p) == <<Len(p), Nil>>

\* Sum32Of as the NZAT postprocess NZF: MIX(s); if(!s){++s;} FIN(s).
NZF(s) ==
    LET m == MIX(s)
    IN  FIN(IF m = Zero THEN W(0, 1) ELSE m)

\* What Sum32 returns for the accumulator s: it works on the copy sum.
Sum32Of(s) == FIN(MIX(s))

\* Sum32Acc when Sum32 mixes *d itself instead of the copy.
Sum32AccInPlace(s) == MIX(s)

\* What Sum32 leaves in the accumulator s.
Sum32Acc(s) == s

\* What Sum(in) returns for the accumulator s: in, then the four bytes of
\* Sum32, most significant first.
SumOf(s, in) ==
    LET r == Sum32Of(s)
    IN  in \o <<Byte(Shr32(r, 24)), Byte(Shr32(r, 16)), Byte(Shr32(r, 8)), Byte(r)>>

\* Checksum(data): New, Write(data), Sum32.
Checksum(data) == Sum32Of(WriteLoop(Zero, data))

\* The engine New returns: Reset has set the accumulator to 0.
New ==
    /\ d = Zero
    /\ ingested = <<>>
    /\ op = "New"
    /\ arg = <<>>
    /\ ret = None
    /\ reused = FALSE
    /\ again = FALSE

\* Reset that leaves the accumulator as it is.
ResetKeeps ==
    /\ d' = d
    /\ ingested' = <<>>
    /\ op' = "Reset"
    /\ arg' = <<>>
    /\ ret' = None
    /\ reused' = (reused \/ ingested # <<>>)
    /\ again' = FALSE

Reset ==
    /\ d' = Zero
    /\ ingested' = <<>>
    /\ op' = "Reset"
    /\ arg' = <<>>
    /\ ret' = None
    /\ reused' = (reused \/ ingested # <<>>)
    /\ again' = FALSE

\* Write that starts every call from accumulator 0.
WriteFresh(p) ==
    /\ d' = WriteLoop(Zero, p)
    /\ ingested' = ingested \o p
    /\ op' = "Write"
    /\ arg' = p
    /\ ret' = WriteRet(p)
    /\ again' = FALSE
    /\ UNCHANGED reused

Write(p) ==
    /\ d' = WriteLoop(d, p)
    /\ ingested' = ingested \o p
    /\ op' = "Write"
    /\ arg' = p
    /\ ret' = WriteRet(p)
    /\ again' = FALSE
    /\ UNCHANGED reused

Sum32 ==
    /\ d' = Sum32Acc(d)
    /\ op' = "Sum32"
    /\ arg' = <<>>
    /\ ret' = Sum32Of(d)
    /\ again' = (op \in {"Sum32", "Sum"})
    /\ UNCHANGED <<ingested, reused>>

Sum(in) ==
    /\ d' = Sum32Acc(d)
    /\ op' = "Sum"
    /\ arg' = in
    /\ ret' = SumOf(d, in)
    /\ again' = (op \in {"Sum32", "Sum"})
    /\ UNCHANGED <<ingested, reused>>

---------------------------------------------------------------------------
(* The engine under arbitrary calls *)

\* At most MaxLen bytes are written between two Resets.
MaxLen == 4

\* Write is given every slice of at most MaxWrite bytes over Bytes ...
MaxWrite == 2

Bytes == {0, 24, 26, 255}

\* ... and these longer slices, as a caller draining a buffer passes them.
Chunks == {<<127, 3>>, <<85, 129, 181>>}

SeqsUpTo(S, n) == UNION {[1..k -> S] : k \in 0..n}

Slices == SeqsUpTo(Bytes, MaxWrite) \cup Chunks

\* The slices Sum is asked to append to.
Ins == {<<>>, <<7>>}

Init == New

Next ==
    \/ \E p \in Slices : Len(ingested) + Len(p) <= MaxLen /\ Write(p)
    \/ Sum32
    \/ \E in \in Ins : Sum(in)
    \/ Reset

Spec == Init /\ [][Next]_vars

---------------------------------------------------------------------------
(* The engine fed the texts of the tests, in pieces *)

TextA == <<97>>

TextABC == <<97, 98, 99>>

TextMessageDigest ==
    <<109, 101, 115, 115, 97, 103, 101, 32, 100, 105, 103, 101, 115, 116>>

RefTexts == {TextA, TextABC, TextMessageDigest}

\* A text is written in pieces of at most MaxChunk bytes.
MaxChunk == 3

IsPrefix(x, t) == Len(x) <= Len(t) /\ SubSeq(t, 1, Len(x)) = x

NextVec ==
    \/ \E t \in RefTexts : \E n \in 0..MaxChunk :
          /\ IsPrefix(ingested, t)
          /\ Len(ingested) + n <= Len(t)
          /\ Write(SubSeq(t, Len(ingested) + 1, Len(ingested) + n))
    \/ Sum32
    \/ \E in \in Ins : Sum(in)
    \/ Reset

SpecVec == Init /\ [][NextVec]_vars

---------------------------------------------------------------------------
(* The primitives on accumulators of every shape *)

HalfSamples == {0, 1, 63, 64, 1023, 1024, 32767, 32768, 43690, 65471, 65535}

Words == {W(h, l) : h \in HalfSamples, l \in HalfSamples}

\* An engine found holding the accumulator s, whatever calls produced it;
\* ingested then counts from that moment.
InitWord ==
    /\ d \in Words
    /\ ingested = <<>>
    /\ op = "Given"
    /\ arg = <<>>
    /\ ret = None
    /\ reused = FALSE
    /\ again = FALSE

\* At most MaxSteps bytes are written to such an engine.
MaxSteps == 1

NextWord ==
    \/ \E b \in Bytes : Len(ingested) < MaxSteps /\ Write(<<b>>)
    \/ Sum32
    \/ \E in \in Ins : Sum(in)

SpecWord == InitWord /\ [][NextWord]_vars

---------------------------------------------------------------------------
(* The arithmetic the properties are stated in: a 32-bit value as the      *)
(* sequence of its 32 bits, the least significant first, with addition     *)
(* modulo 2^32 by ripple carry.                                            *)

RECURSIVE BitsOfNat(_, _)
BitsOfNat(n, k) ==
    IF k = 0 THEN <<>> ELSE <<n % 2>> \o BitsOfNat(n \div 2, k - 1)

Bits(w) == BitsOfNat(w[2], 16) \o BitsOfNat(w[1], 16)

Zeros(k) == [i \in 1..k |-> 0]

BZero == Zeros(32)

BOne == <<1>> \o Zeros(31)

\* The bits of x + y from position i on, c the carry into position i; the
\* carry out of the last position is dropped.
RECURSIVE AddFrom(_, _, _, _)
AddFrom(x, y, i, c) ==
    IF i > 32 THEN <<>>
    ELSE <<(x[i] + y[i] + c) % 2>> \o AddFrom(x, y, i + 1, (x[i] + y[i] + c) \div 2)

BAdd(x, y) == AddFrom(x, y, 1, 0)

BShl(x, k) == Zeros(k) \o SubSeq(x, 1, 32 - k)

BShr(x, k) == SubSeq(x, k + 1, 32) \o Zeros(k)

RECURSIVE XorFrom(_, _, _)
XorFrom(x, y, i) ==
    IF i > 32 THEN <<>> ELSE <<(x[i] + y[i]) % 2>> \o XorFrom(x, y, i + 1)

BXor(x, y) == XorFrom(x, y, 1)

\* s += s << 10; s ^= s >> 6
BMix(x) ==
    LET t == BAdd(x, BShl(x, 10))
    IN  BXor(t, BShr(t, 6))

\* s += s << 3; s ^= s >> 11; s += s << 15
BFin(x) ==
    LET t == BAdd(x, BShl(x, 3))
        u == BXor(t, BShr(t, 11))
    IN  BAdd(u, BShl(u, 15))

\* s := s + b + 1, then the mix step
BUpdate(x, b) == BMix(BAdd(x, BitsOfNat(b + 1, 32)))

\* The update applied once per byte of p, from the left.
RECURSIVE BFold(_, _, _)
BFold(x, p, i) ==
    IF i > Len(p) THEN x
    ELSE LET y == BUpdate(x, p[i])
         IN  IF Len(y) = 32 THEN BFold(y, p, i + 1) ELSE y

\* The never-zero pipeline: mix, force 0 to 1, base postprocess.
BNeverZero(x) ==
    LET m == BMix(x)
    IN  BFin(IF m = BZero THEN BOne ELSE m)

\* The 32-bit result a finalize call returned: Sum32's value, or the last
\* four bytes of Sum's, most significant first.
Result32(o, r) ==
    IF o = "Sum32" THEN r
    ELSE LET n == Len(r)
         IN  W(r[n - 3] * 256 + r[n - 2], r[n - 1] * 256 + r[n])

Finalizers == {"Sum32", "Sum"}

---------------------------------------------------------------------------
(* Properties *)

C2_EmptyIsZero ==
    (op = "Sum32" /\ ingested = <<>>) => ret = Zero

C2_Witness ==
    /\ op = "Sum32"
    /\ ingested = <<>>
    /\ reused
    /\ ret = Zero

\* C3: the reference vectors: "a" hashes to C31517C4, "abc" to C3E39E2D and
\* "message digest" to 434B78B4, however the text is cut into Write calls,
\* and Checksum agrees.
C3_ReferenceVectors ==
    /\ Checksum(TextA) = W(49941, 6084)
    /\ Checksum(TextABC) = W(50147, 40493)
    /\ Checksum(TextMessageDigest) = W(17227, 30900)
    /\ op = "Sum32" =>
          /\ (ingested = TextA => ret = W(49941, 6084))
          /\ (ingested = TextABC => ret = W(50147, 40493))
          /\ (ingested = TextMessageDigest => ret = W(17227, 30900))

C3_Witness ==
    /\ op = "Sum32"
    /\ ingested = TextMessageDigest
    /\ ret = W(17227, 30900)

\* C4: a Write step takes the accumulator through s := s + b + 1;
\* s := s + (s << 10); s := s XOR (s >> 6), modulo 2^32 with an unsigned
\* shift, once per byte from the left; the accumulator stays a 32-bit value
\* and a Write of the empty slice leaves it unchanged.
C4_WriteTransform ==
    [][op' = "Write" =>
          /\ InRange(d) /\ InRange(d')
          /\ Bits(d') = BFold(Bits(d), arg', 1)
          /\ (arg' = <<>> => d' = d)]_vars

C4_Witness ==
    /\ op = "Write"
    /\ Len(arg) = 2
    /\ Len(ingested) = 4
    /\ d[1] >= 32768

\* C5: however a byte sequence is split over Write calls, and whatever
\* Sum32 and Sum calls come between them, the accumulator is the one a
\* single Write of the whole sequence gives, and Sum32 returns what
\* Checksum of the whole sequence returns.
C5_IncrementalConsistency ==
    /\ d = WriteLoop(Zero, ingested)
    /\ (op = "Sum32" => ret = Checksum(ingested))
    /\ (op = "Sum" => Result32(op, ret) = Checksum(ingested))

C5_Witness ==
    /\ op = "Write"
    /\ arg # <<>>
    /\ Len(arg) < Len(ingested)
    /\ Len(ingested) >= 3

\* C6: Sum32 and Sum leave the accumulator unchanged, and a finalize call
\* that follows a finalize call returns the same 32-bit result.
C6_FinalizeNonMutating ==
    [][op' \in Finalizers =>
          /\ d' = d
          /\ (op \in Finalizers => Result32(op', ret') = Result32(op, ret))]_vars

C6_Witness ==
    /\ again
    /\ op = "Sum"
    /\ arg # <<>>
    /\ ingested # <<>>

\* C7: a Write of a single byte, whatever the byte and whatever the state,
\* leaves the accumulator different from what it was.
C7_EveryOctetChangesState ==
    [][(op' = "Write" /\ Len(arg') = 1) => d' # d]_vars

C9_WriteReturnsLen ==
    op = "Write" =>
        /\ ret[1] = Len(arg)
        /\ ret[2] = Nil
        /\ Len(arg) <= Len(ingested)
        /\ SubSeq(ingested, Len(ingested) - Len(arg) + 1, Len(ingested)) = arg

C9_Witness ==
    /\ op = "Write"
    /\ Len(arg) = 3
    /\ ret = <<3, Nil>>

\* C10: the mix step and the base postprocess give 0 only for 0, so Sum32
\* returns 0 if and only if the accumulator is exactly 0.
C10_ZeroOnlyFromZero ==
    /\ (MIX(d) = Zero => d = Zero)
    /\ (FIN(d) = Zero => d = Zero)
    /\ (op = "Sum32" => (ret = Zero <=> d = Zero))

C10_Witness ==
    /\ op = "Sum32"
    /\ d = W(65535, 65535)
    /\ ret # Zero
    /\ MIX(d) # Zero

====
